---- MODULE Spec2Model ----
(***************************************************************************)
(* A model of go-ansiparser: the resumable StringTokenizer, the batch      *)
(* parser Parse/parseASCII, the CSI and OSC scanners and the SGR colour    *)
(* resolver parseSGR.                                                      *)
(*                                                                         *)
(* Go strings are sequences of byte values.  The code indexes from 0, so   *)
(* the helpers At and Slice keep the code's 0-based index arithmetic.  A   *)
(* slice expression whose bounds lie outside the string panics in Go; the  *)
(* scanners therefore return a record with a "panic" field, and a panic    *)
(* ends the program (no action is enabled after it).                       *)
(***************************************************************************)
EXTENDS Integers, Sequences, FiniteSets, TLC

\* ------------------------------------------------------------------------
\* Bytes
\* ------------------------------------------------------------------------
\* the byte value of a character of the source's literals and of the inputs
Ord(c) ==
    CASE c = "BEL" -> 7   [] c = "ESC" -> 27  [] c = " " -> 32
      [] c = "0" -> 48    [] c = "1" -> 49    [] c = "2" -> 50
      [] c = "3" -> 51    [] c = "4" -> 52    [] c = "5" -> 53
      [] c = "6" -> 54    [] c = "7" -> 55    [] c = "8" -> 56
      [] c = "9" -> 57    [] c = ";" -> 59    [] c = "C" -> 67
      [] c = "[" -> 91    [] c = "\\" -> 92   [] c = "]" -> 93
      [] c = "a" -> 97    [] c = "m" -> 109   [] c = "HI" -> 200

\* the Go string written as a tuple of characters
B(cs) == [i \in 1..Len(cs) |-> Ord(cs[i])]

bel == 7
st == B(<<"ESC", "\\">>)

\* TokenType
String == 0
EscapeCode == 1
ComplexChar == 2
ZeroWidth == 3

\* ------------------------------------------------------------------------
\* Go string primitives
\* ------------------------------------------------------------------------
\* s[i] with a 0-based index
At(s, i) == s[i + 1]

\* s[a:b] with 0-based bounds, defined when 0 <= a <= b <= len(s)
Slice(s, a, b) == SubSeq(s, a + 1, b)

\* whether s[a:b] is within bounds (Go panics otherwise)
SliceOk(s, a, b) == 0 <= a /\ a <= b /\ b <= Len(s)

RECURSIVE Concat(_)
Concat(ss) == IF ss = <<>> THEN <<>> ELSE Head(ss) \o Concat(Tail(ss))

\* the fields of a parameter list joined by ';'
RECURSIVE Join(_)
Join(ss) ==
    IF ss = <<>> THEN <<>>
    ELSE IF Len(ss) = 1 THEN Head(ss)
    ELSE Head(ss) \o B(<<";">>) \o Join(Tail(ss))

\* ------------------------------------------------------------------------
\* parseSGR
\* ------------------------------------------------------------------------
\* the scan of readNextCommand: first index >= pos that is len(sgr) or a ';'
RECURSIVE FieldEnd(_, _)
FieldEnd(sgr, pos) ==
    IF pos < Len(sgr) /\ At(sgr, pos) # Ord(";") THEN FieldEnd(sgr, pos + 1) ELSE pos

\* readNextCommand: the field starting at pos and the position after it
readNextCommand(sgr, pos) ==
    LET end == FieldEnd(sgr, pos)
    IN  [answer |-> Slice(sgr, pos, end),
         pos    |-> IF end < Len(sgr) THEN end + 1 ELSE end]

\* parseSetColor taking the tag up to the position reached, which is past the
\* separator that follows the group
parseSetColor_TrailingSep(sgr, pos, startPos, command) ==
    LET t == readNextCommand(sgr, pos)
    IN  IF t.answer = B(<<"5">>) THEN
            LET c == readNextCommand(sgr, t.pos)
            IN  [val |-> Slice(sgr, startPos, c.pos), pos |-> c.pos, panic |-> FALSE]
        ELSE IF t.answer = B(<<"2">>) THEN
            LET r == readNextCommand(sgr, t.pos)
                g == readNextCommand(sgr, r.pos)
                b == readNextCommand(sgr, g.pos)
            IN  [val |-> Slice(sgr, startPos, b.pos), pos |-> b.pos, panic |-> FALSE]
        ELSE [val |-> <<>>, pos |-> t.pos, panic |-> FALSE]

\* parseSetColor leaving the position after the mode field, so that the
\* operands of the group are read again as commands
parseSetColor_Rescan(sgr, pos, startPos, command) ==
    LET t == readNextCommand(sgr, pos)
    IN  IF t.answer = B(<<"5">>) THEN
            LET c   == readNextCommand(sgr, t.pos)
                end == startPos + Len(command) + 1 + Len(t.answer) + 1 + Len(c.answer)
            IN  IF SliceOk(sgr, startPos, end)
                THEN [val |-> Slice(sgr, startPos, end), pos |-> t.pos, panic |-> FALSE]
                ELSE [val |-> <<>>, pos |-> t.pos, panic |-> TRUE]
        ELSE IF t.answer = B(<<"2">>) THEN
            LET r   == readNextCommand(sgr, t.pos)
                g   == readNextCommand(sgr, r.pos)
                b   == readNextCommand(sgr, g.pos)
                end == startPos + Len(command) + 1 + Len(t.answer) + 1
                         + Len(r.answer) + 1 + Len(g.answer) + 1 + Len(b.answer)
            IN  IF SliceOk(sgr, startPos, end)
                THEN [val |-> Slice(sgr, startPos, end), pos |-> t.pos, panic |-> FALSE]
                ELSE [val |-> <<>>, pos |-> t.pos, panic |-> TRUE]
        ELSE [val |-> <<>>, pos |-> t.pos, panic |-> FALSE]

\* parseSetColor: the colour tag of an extended colour group, the position
\* after the group, and whether the slice expression panics
parseSetColor(sgr, pos, startPos, command) ==
    LET t == readNextCommand(sgr, pos)
    IN  IF t.answer = B(<<"5">>) THEN
            LET c   == readNextCommand(sgr, t.pos)
                end == startPos + Len(command) + 1 + Len(t.answer) + 1 + Len(c.answer)
            IN  IF SliceOk(sgr, startPos, end)
                THEN [val |-> Slice(sgr, startPos, end), pos |-> c.pos, panic |-> FALSE]
                ELSE [val |-> <<>>, pos |-> c.pos, panic |-> TRUE]
        ELSE IF t.answer = B(<<"2">>) THEN
            LET r   == readNextCommand(sgr, t.pos)
                g   == readNextCommand(sgr, r.pos)
                b   == readNextCommand(sgr, g.pos)
                end == startPos + Len(command) + 1 + Len(t.answer) + 1
                         + Len(r.answer) + 1 + Len(g.answer) + 1 + Len(b.answer)
            IN  IF SliceOk(sgr, startPos, end)
                THEN [val |-> Slice(sgr, startPos, end), pos |-> b.pos, panic |-> FALSE]
                ELSE [val |-> <<>>, pos |-> b.pos, panic |-> TRUE]
        ELSE [val |-> <<>>, pos |-> t.pos, panic |-> FALSE]

BrightFG == { B(<<"9", d>>) : d \in {"0", "1", "2", "3", "4", "5", "6", "7"} }
BrightBG == { B(<<"1", "0", d>>) : d \in {"0", "1", "2", "3", "4", "5", "6", "7"} }

\* "fg = parseSetColor(startPos, command)" and "bg = parseSetColor(...)":
\* the colours and the position after the call whose outcome is sc
setForeground(sc, bg) == [fg |-> sc.val, bg |-> bg, pos |-> sc.pos, panic |-> sc.panic]
setBackground(sc, fg) == [fg |-> fg, bg |-> sc.val, pos |-> sc.pos, panic |-> sc.panic]

\* the if/else chain with the two-character tests before the tests for the
\* clearing commands 39 and 49
applyCommand_DimFirst(sgr, startPos, rc, fg, bg) ==
    LET command == rc.answer
        same    == [fg |-> fg, bg |-> bg, pos |-> rc.pos, panic |-> FALSE]
    IN  IF command = B(<<"1">>) THEN [same EXCEPT !.fg = <<>>, !.bg = <<>>]
        ELSE IF command = B(<<"3", "8">>) THEN
            setForeground(parseSetColor(sgr, rc.pos, startPos, command), bg)
        ELSE IF Len(command) = 2 /\ At(command, 0) = Ord("3") THEN [same EXCEPT !.fg = command]
        ELSE IF command = B(<<"3", "9">>) THEN [same EXCEPT !.fg = <<>>]
        ELSE IF command \in BrightFG THEN [same EXCEPT !.fg = command]
        ELSE IF command = B(<<"4", "8">>) THEN
            setBackground(parseSetColor(sgr, rc.pos, startPos, command), fg)
        ELSE IF Len(command) = 2 /\ At(command, 0) = Ord("4") THEN [same EXCEPT !.bg = command]
        ELSE IF command = B(<<"4", "9">>) THEN [same EXCEPT !.bg = <<>>]
        ELSE IF command \in BrightBG THEN [same EXCEPT !.bg = command]
        ELSE same

\* the if/else chain with "1" as bold, which changes no colour
applyCommand_Bold(sgr, startPos, rc, fg, bg) ==
    LET command == rc.answer
        same    == [fg |-> fg, bg |-> bg, pos |-> rc.pos, panic |-> FALSE]
    IN  IF command = B(<<"1">>) THEN same
        ELSE IF command = B(<<"3", "9">>) THEN [same EXCEPT !.fg = <<>>]
        ELSE IF command = B(<<"3", "8">>) THEN
            setForeground(parseSetColor(sgr, rc.pos, startPos, command), bg)
        ELSE IF Len(command) = 2 /\ At(command, 0) = Ord("3") THEN [same EXCEPT !.fg = command]
        ELSE IF command \in BrightFG THEN [same EXCEPT !.fg = command]
        ELSE IF command = B(<<"4", "9">>) THEN [same EXCEPT !.bg = <<>>]
        ELSE IF command = B(<<"4", "8">>) THEN
            setBackground(parseSetColor(sgr, rc.pos, startPos, command), fg)
        ELSE IF Len(command) = 2 /\ At(command, 0) = Ord("4") THEN [same EXCEPT !.bg = command]
        ELSE IF command \in BrightBG THEN [same EXCEPT !.bg = command]
        ELSE same

\* the if/else chain of the for loop of parseSGR: the command rc read at
\* startPos applied to the colours fg, bg, and the position after it
applyCommand(sgr, startPos, rc, fg, bg) ==
    LET command == rc.answer
        same    == [fg |-> fg, bg |-> bg, pos |-> rc.pos, panic |-> FALSE]
    IN  IF command = B(<<"1">>) THEN [same EXCEPT !.fg = <<>>, !.bg = <<>>]
        ELSE IF command = B(<<"3", "9">>) THEN [same EXCEPT !.fg = <<>>]
        ELSE IF command = B(<<"3", "8">>) THEN
            setForeground(parseSetColor(sgr, rc.pos, startPos, command), bg)
        ELSE IF Len(command) = 2 /\ At(command, 0) = Ord("3") THEN [same EXCEPT !.fg = command]
        ELSE IF command \in BrightFG THEN [same EXCEPT !.fg = command]
        ELSE IF command = B(<<"4", "9">>) THEN [same EXCEPT !.bg = <<>>]
        ELSE IF command = B(<<"4", "8">>) THEN
            setBackground(parseSetColor(sgr, rc.pos, startPos, command), fg)
        ELSE IF Len(command) = 2 /\ At(command, 0) = Ord("4") THEN [same EXCEPT !.bg = command]
        ELSE IF command \in BrightBG THEN [same EXCEPT !.bg = command]
        ELSE same

\* one iteration of the for loop of parseSGR, from position pos
sgrCommand(sgr, pos, fg, bg) ==
    applyCommand(sgr, pos, readNextCommand(sgr, pos), fg, bg)

\* the for loop of parseSGR, from position pos with colours fg, bg; c is the
\* outcome of the iteration just made
RECURSIVE parseSGRLoop(_, _, _, _)
RECURSIVE sgrContinue(_, _, _, _)
\* sgrContinue returning after the first command
sgrContinue_Return(sgr, fg, bg, c) ==
    IF c.panic THEN [fg |-> fg, bg |-> bg, panic |-> TRUE]
    ELSE [fg |-> c.fg, bg |-> c.bg, panic |-> FALSE]

sgrContinue(sgr, fg, bg, c) ==
    IF c.panic THEN [fg |-> fg, bg |-> bg, panic |-> TRUE]
    ELSE parseSGRLoop(sgr, c.pos, c.fg, c.bg)

parseSGRLoop(sgr, pos, fg, bg) ==
    IF pos < Len(sgr) THEN sgrContinue(sgr, fg, bg, sgrCommand(sgr, pos, fg, bg))
    ELSE [fg |-> fg, bg |-> bg, panic |-> FALSE]

parseSGR(sgr, prevFG, prevBG) ==
    IF Len(sgr) = 0 THEN [fg |-> <<>>, bg |-> <<>>, panic |-> FALSE]
    ELSE parseSGRLoop(sgr, 0, prevFG, prevBG)

\* ------------------------------------------------------------------------
\* Escape code scanners
\* ------------------------------------------------------------------------
Token(type, content, fg, bg) ==
    [Type |-> type, Content |-> content, FG |-> fg, BG |-> bg]

\* the zero value of AnsiToken
ZeroToken == Token(String, <<>>, <<>>, <<>>)

\* the loop of parseASCIIOSC: first i >= 2 at which done() holds
RECURSIVE OSCEnd(_, _)
OSCEnd(str, i) ==
    IF i >= Len(str) \/ At(str, i) = bel \/ Slice(str, i - 1, i + 1) = st
    THEN i
    ELSE OSCEnd(str, i + 1)

\* parseASCIIOSC returning a token without colours
parseASCIIOSC_Reset(str, prevFG, prevBG) ==
    LET e == OSCEnd(str, 2)
        i == IF e < Len(str) THEN e + 1 ELSE e
    IN  [token |-> Token(EscapeCode, Slice(str, 0, i), <<>>, <<>>),
         panic |-> FALSE]

\* parseASCIIOSC with the terminator left out of the token
parseASCIIOSC_OpenEnd(str, prevFG, prevBG) ==
    LET e == OSCEnd(str, 2)
    IN  [token |-> Token(EscapeCode, Slice(str, 0, e), prevFG, prevBG),
         panic |-> FALSE]

\* parseASCIIOSC: str starts with ESC ]
parseASCIIOSC(str, prevFG, prevBG) ==
    LET e == OSCEnd(str, 2)
        i == IF e < Len(str) THEN e + 1 ELSE e
    IN  [token |-> Token(EscapeCode, Slice(str, 0, i), prevFG, prevBG),
         panic |-> FALSE]

\* a loop "for i < len(str) && str[i] >= lo && str[i] <= hi { i++ }"
RECURSIVE SkipBytes(_, _, _, _)
SkipBytes(str, i, lo, hi) ==
    IF i < Len(str) /\ At(str, i) >= lo /\ At(str, i) <= hi
    THEN SkipBytes(str, i + 1, lo, hi)
    ELSE i

\* "token.FG, token.BG = parseSGR(...)": the token with the colours r
sgrToken(content, r) ==
    [token |-> Token(EscapeCode, content, r.fg, r.bg), panic |-> r.panic]

\* parseASCIIEscapeCode: str starts with ESC [
parseASCIIEscapeCode(str, prevFG, prevBG) ==
    LET iParam   == SkipBytes(str, 2, 48, 63)
        iInter   == SkipBytes(str, iParam, 32, 47)
        hasFinal == iInter < Len(str) /\ At(str, iInter) >= 40 /\ At(str, iInter) <= 126
        command  == IF hasFinal THEN At(str, iInter) ELSE 0
        i        == IF hasFinal THEN iInter + 1 ELSE iInter
    IN  IF command = Ord("m") THEN
            sgrToken(Slice(str, 0, i), parseSGR(Slice(str, 2, i - 1), prevFG, prevBG))
        ELSE [token |-> Token(EscapeCode, Slice(str, 0, i), prevFG, prevBG),
              panic |-> FALSE]

\* IsCSIAt without the test of the byte after ESC
IsCSIAt_AnyNext(str, i) ==
    At(str, i) = Ord("ESC") /\ i + 1 < Len(str)

\* the conditions of the CSI and OSC branches of both parsers
IsCSIAt(str, i) ==
    At(str, i) = Ord("ESC") /\ i + 1 < Len(str) /\ At(str, i + 1) = Ord("[")

\* IsOSCAt with the OSC branch never taken
IsOSCAt_Never(str, i) == FALSE

IsOSCAt(str, i) ==
    At(str, i) = Ord("ESC") /\ i + 1 < Len(str) /\ At(str, i + 1) = Ord("]")

\* ------------------------------------------------------------------------
\* StringTokenizer.Next
\* ------------------------------------------------------------------------
\* makeStringToken with the token starting one byte late
makeStringToken_Short(str, currentStart, position, token) ==
    IF currentStart = position \/ position > Len(str)
    THEN [ret |-> FALSE, position |-> position, token |-> token, panic |-> FALSE]
    ELSE [ret |-> TRUE, position |-> position,
          token |-> Token(String, Slice(str, currentStart + 1, position), token.FG, token.BG),
          panic |-> FALSE]

\* makeStringToken rewinding the tokenizer when there is nothing left
makeStringToken_Rewind(str, currentStart, position, token) ==
    IF currentStart = position \/ position > Len(str)
    THEN [ret |-> FALSE, position |-> 0, token |-> token, panic |-> FALSE]
    ELSE [ret |-> TRUE, position |-> position,
          token |-> Token(String, Slice(str, currentStart, position), token.FG, token.BG),
          panic |-> FALSE]

\* makeStringToken not carrying the colours of the previous token
makeStringToken_NoColour(str, currentStart, position, token) ==
    IF currentStart = position \/ position > Len(str)
    THEN [ret |-> FALSE, position |-> position, token |-> token, panic |-> FALSE]
    ELSE [ret |-> TRUE, position |-> position,
          token |-> Token(String, Slice(str, currentStart, position), <<>>, <<>>),
          panic |-> FALSE]

\* makeStringToken clearing the token when no String token is made
makeStringToken_ClearOnDone(str, currentStart, position, token) ==
    IF currentStart = position \/ position > Len(str)
    THEN [ret |-> FALSE, position |-> position, token |-> ZeroToken, panic |-> FALSE]
    ELSE [ret |-> TRUE, position |-> position,
          token |-> Token(String, Slice(str, currentStart, position), token.FG, token.BG),
          panic |-> FALSE]

\* makeStringToken: whether a String token is made, and the token
makeStringToken(str, currentStart, position, token) ==
    IF currentStart = position \/ position > Len(str)
    THEN [ret |-> FALSE, position |-> position, token |-> token, panic |-> FALSE]
    ELSE [ret |-> TRUE, position |-> position,
          token |-> Token(String, Slice(str, currentStart, position), token.FG, token.BG),
          panic |-> FALSE]

\* the escape code branch without "tokenizer.position += len(escapeCode.Content)"
EscapeBranch_NoAdvance(str, currentStart, position, token, escapeCode) ==
    LET made == makeStringToken(str, currentStart, position, token)
    IN  IF made.ret THEN made
        ELSE IF escapeCode.panic
        THEN [ret |-> FALSE, position |-> position, token |-> token, panic |-> TRUE]
        ELSE [ret |-> TRUE, position |-> position,
              token |-> escapeCode.token, panic |-> FALSE]

\* the outcome of an escape code branch of Next
EscapeBranch(str, currentStart, position, token, escapeCode) ==
    LET made == makeStringToken(str, currentStart, position, token)
    IN  IF made.ret THEN made
        ELSE IF escapeCode.panic
        THEN [ret |-> FALSE, position |-> position, token |-> token, panic |-> TRUE]
        ELSE [ret |-> TRUE, position |-> position + Len(escapeCode.token.Content),
              token |-> escapeCode.token, panic |-> FALSE]

\* the for loop of Next and the return after it
RECURSIVE NextLoop(_, _, _, _)
NextLoop(str, currentStart, position, token) ==
    IF position < Len(str) THEN
        LET c == At(str, position)
        IN  IF c > 127 THEN NextLoop(str, currentStart, position + 1, token)
            ELSE IF IsCSIAt(str, position) THEN
                EscapeBranch(str, currentStart, position, token,
                    parseASCIIEscapeCode(Slice(str, position, Len(str)), token.FG, token.BG))
            ELSE IF IsOSCAt(str, position) THEN
                EscapeBranch(str, currentStart, position, token,
                    parseASCIIOSC(Slice(str, position, Len(str)), token.FG, token.BG))
            ELSE NextLoop(str, currentStart, position + 1, token)
    ELSE makeStringToken(str, currentStart, position, token)

\* ------------------------------------------------------------------------
\* parseASCII and Parse
\* ------------------------------------------------------------------------
\* finishStringToken with the token ending one byte early
finishStringToken_Short(str, tokens, currentStart, end, currentFG, currentBG) ==
    IF currentStart = -1 THEN tokens
    ELSE Append(tokens, Token(String, Slice(str, currentStart, end - 1), currentFG, currentBG))

\* finishStringToken without the test for a pending run: with none pending
\* an empty String token is appended
finishStringToken_NoGuard(str, tokens, currentStart, end, currentFG, currentBG) ==
    IF currentStart = -1
    THEN Append(tokens, Token(String, <<>>, currentFG, currentBG))
    ELSE Append(tokens, Token(String, Slice(str, currentStart, end), currentFG, currentBG))

\* finishStringToken: tokens with the pending String token appended
finishStringToken(str, tokens, currentStart, end, currentFG, currentBG) ==
    IF currentStart = -1 THEN tokens
    ELSE Append(tokens, Token(String, Slice(str, currentStart, end), currentFG, currentBG))

\* belToken with the BEL byte emitted as text
belToken_AsString(str, i, currentFG, currentBG) ==
    Token(String, Slice(str, i, i + 1), currentFG, currentBG)

\* the token appended by the BEL branch of parseASCII
belToken(str, i, currentFG, currentBG) ==
    Token(ZeroWidth, Slice(str, i, i + 1), currentFG, currentBG)

\* the for loop of parseASCII and the return after it; afterCSI and afterOSC
\* are the rest of the CSI and OSC branches, once the escape code is parsed
RECURSIVE parseASCIILoop(_, _, _, _, _, _, _)
RECURSIVE afterCSI(_, _, _, _, _)
RECURSIVE afterOSC(_, _, _, _, _, _, _)
afterCSI(str, force, i, finished, escapeCode) ==
    IF escapeCode.panic
    THEN [tokens |-> finished, consumed |-> i, panic |-> TRUE]
    ELSE parseASCIILoop(str, force, i + Len(escapeCode.token.Content), -1,
            escapeCode.token.FG, escapeCode.token.BG,
            Append(finished, escapeCode.token))

afterOSC(str, force, i, currentFG, currentBG, finished, escapeCode) ==
    parseASCIILoop(str, force, i + Len(escapeCode.token.Content), -1,
        currentFG, currentBG, Append(finished, escapeCode.token))

parseASCIILoop(str, force, i, currentStart, currentFG, currentBG, tokens) ==
    IF i < Len(str) THEN
        LET c        == At(str, i)
            finished == finishStringToken(str, tokens, currentStart, i, currentFG, currentBG)
        IN  IF c > 127 /\ ~force THEN
                [tokens |-> finished, consumed |-> i, panic |-> FALSE]
            ELSE IF IsCSIAt(str, i) THEN
                afterCSI(str, force, i, finished,
                    parseASCIIEscapeCode(Slice(str, i, Len(str)), currentFG, currentBG))
            ELSE IF IsOSCAt(str, i) THEN
                afterOSC(str, force, i, currentFG, currentBG, finished,
                    parseASCIIOSC(Slice(str, i, Len(str)), currentFG, currentBG))
            ELSE IF c = bel THEN
                parseASCIILoop(str, force, i + 1, -1, currentFG, currentBG,
                    Append(finished, belToken(str, i, currentFG, currentBG)))
            ELSE
                parseASCIILoop(str, force, i + 1,
                    IF currentStart = -1 THEN i ELSE currentStart,
                    currentFG, currentBG, tokens)
    ELSE [tokens   |-> finishStringToken(str, tokens, currentStart, i, currentFG, currentBG),
          consumed |-> i, panic |-> FALSE]

parseASCII(str, force, startFG, startBG) ==
    parseASCIILoop(str, force, 0, -1, startFG, startBG, <<>>)

\* ------------------------------------------------------------------------
\* The Unicode pass. parseUnicode is no file of the source; it is modelled
\* from the specification: the logic of the ASCII pass, and in addition one
\* ComplexChar token for every user-perceived character of more than one byte.
\* ------------------------------------------------------------------------
\* the end of the UTF-8 character that starts at i: its first byte and the
\* continuation bytes (top two bits 10) after it
CharEnd(str, i) == SkipBytes(str, i + 1, 128, 191)

\* whether a character that extends the one before it starts at i: a
\* combining mark U+0300..U+033F (first byte 0xCC) or an emoji modifier
\* U+1F3FB..U+1F3FF (F0 9F 8F BB..BF)
IsExtendAt(str, i) ==
    /\ i < Len(str)
    /\ \/ At(str, i) = 204
       \/ /\ i + 3 < Len(str)
          /\ Slice(str, i, i + 3) = <<240, 159, 143>>
          /\ At(str, i + 3) \in 187..191

\* whether a zero-width joiner U+200D (E2 80 8D) starts at i
IsZWJAt(str, i) == i + 2 < Len(str) /\ Slice(str, i, i + 3) = <<226, 128, 141>>

\* the end of the user-perceived character whose characters so far end at e:
\* extending characters join it, and so do a zero-width joiner and the
\* four-byte character after it
RECURSIVE ClusterEnd(_, _)
ClusterEnd(str, e) ==
    IF IsExtendAt(str, e) THEN ClusterEnd(str, CharEnd(str, e))
    ELSE IF IsZWJAt(str, e) THEN
        IF e + 3 < Len(str) /\ At(str, e + 3) >= 240
        THEN ClusterEnd(str, CharEnd(str, e + 3))
        ELSE ClusterEnd(str, e + 3)
    ELSE e

\* the end of the user-perceived character that starts at i; a control
\* character is one of its own
GlyphEnd(str, i) ==
    IF At(str, i) < 32 THEN i + 1 ELSE ClusterEnd(str, CharEnd(str, i))

\* the loop of the Unicode pass and the return after it
RECURSIVE parseUnicodeLoop(_, _, _, _, _, _)
RECURSIVE unicodeAfterCSI(_, _, _, _)
RECURSIVE unicodeAfterOSC(_, _, _, _, _, _)
unicodeAfterCSI(str, i, finished, escapeCode) ==
    IF escapeCode.panic
    THEN [tokens |-> finished, panic |-> TRUE]
    ELSE parseUnicodeLoop(str, i + Len(escapeCode.token.Content), -1,
            escapeCode.token.FG, escapeCode.token.BG,
            Append(finished, escapeCode.token))

unicodeAfterOSC(str, i, currentFG, currentBG, finished, escapeCode) ==
    parseUnicodeLoop(str, i + Len(escapeCode.token.Content), -1,
        currentFG, currentBG, Append(finished, escapeCode.token))

parseUnicodeLoop(str, i, currentStart, currentFG, currentBG, tokens) ==
    IF i < Len(str) THEN
        LET finished == finishStringToken(str, tokens, currentStart, i, currentFG, currentBG)
            e        == GlyphEnd(str, i)
        IN  IF IsCSIAt(str, i) THEN
                unicodeAfterCSI(str, i, finished,
                    parseASCIIEscapeCode(Slice(str, i, Len(str)), currentFG, currentBG))
            ELSE IF IsOSCAt(str, i) THEN
                unicodeAfterOSC(str, i, currentFG, currentBG, finished,
                    parseASCIIOSC(Slice(str, i, Len(str)), currentFG, currentBG))
            ELSE IF At(str, i) = bel THEN
                parseUnicodeLoop(str, i + 1, -1, currentFG, currentBG,
                    Append(finished, belToken(str, i, currentFG, currentBG)))
            ELSE IF e > i + 1 \/ At(str, i) > 127 THEN
                parseUnicodeLoop(str, e, -1, currentFG, currentBG,
                    Append(finished, Token(ComplexChar, Slice(str, i, e), currentFG, currentBG)))
            ELSE
                parseUnicodeLoop(str, i + 1,
                    IF currentStart = -1 THEN i ELSE currentStart,
                    currentFG, currentBG, tokens)
    ELSE [tokens |-> finishStringToken(str, tokens, currentStart, i, currentFG, currentBG),
          panic  |-> FALSE]

parseUnicode(str, startFG, startBG) ==
    parseUnicodeLoop(str, 0, -1, startFG, startBG, <<>>)

\* ------------------------------------------------------------------------
\* Parse
\* ------------------------------------------------------------------------
\* startFG, startBG of Parse: the colours of the last token of the ASCII pass
startColours(tokens) ==
    IF Len(tokens) > 0
    THEN [fg |-> tokens[Len(tokens)].FG, bg |-> tokens[Len(tokens)].BG]
    ELSE [fg |-> <<>>, bg |-> <<>>]

\* "tokens = append(tokens, unicodeTokens...)", u the outcome of parseUnicode
appendUnicode(tokens, u) ==
    [tokens |-> tokens \o u.tokens, panic |-> u.panic]

\* Parse after its ASCII pass, whose outcome is r
parseResult(str, r) ==
    IF r.panic THEN [tokens |-> r.tokens, panic |-> TRUE]
    ELSE IF r.consumed < Len(str) THEN
        appendUnicode(r.tokens,
            parseUnicode(Slice(str, r.consumed, Len(str)),
                         startColours(r.tokens).fg, startColours(r.tokens).bg))
    ELSE [tokens |-> r.tokens, panic |-> FALSE]

Parse(str) == parseResult(str, parseASCII(str, FALSE, <<>>, <<>>))

\* ------------------------------------------------------------------------
\* Bounds and inputs
\* ------------------------------------------------------------------------
MaxBytes == 3
MaxPieces == 3
MaxSgrParts == 3
MaxDoneCalls == 2

\* all sequences over S of length at most n
RECURSIVE SeqsUpTo(_, _)
SeqsUpTo(S, n) ==
    IF n = 0 THEN {<<>>}
    ELSE LET shorter == SeqsUpTo(S, n - 1)
         IN  shorter \cup { Append(q, x) : q \in { p \in shorter : Len(p) = n - 1 }, x \in S }

Alphabet ==
    { Ord(c) : c \in {"ESC", "[", "]", "BEL", "\\", "m", "1", " ", "a"} }

Pieces ==
    { B(<<"a">>), B(<<"BEL">>),
      <<200, 128>>,                                \* U+0200, a letter of two bytes
      <<204, 129>>,                                \* U+0301, a combining accent
      <<240, 159, 145, 141, 240, 159, 143, 188>>,  \* thumbs up with a skin tone
      B(<<"ESC", "[", "3", "1", ";", "4", "2", "m">>),
      B(<<"ESC", "[", "1", "m">>),
      B(<<"ESC", "[", "1", "C">>),
      B(<<"ESC", "[", "3", "8", ";", "5", "m">>),
      B(<<"ESC", "]", "8", ";", "BEL">>) }

Inputs ==
    SeqsUpTo(Alphabet, MaxBytes) \cup { Concat(ps) : ps \in SeqsUpTo(Pieces, MaxPieces) }

SgrPieces ==
    { <<>>, B(<<"0">>), B(<<"1">>), B(<<"2">>), B(<<"5">>), B(<<"7">>),
      B(<<"3", "1">>), B(<<"3", "8">>), B(<<"3", "9">>),
      B(<<"4", "2">>), B(<<"4", "8">>), B(<<"4", "9">>),
      B(<<"9", "3">>), B(<<"1", "0", "4">>),
      B(<<"3", "8", ";", "5", ";", "9">>),
      B(<<"4", "8", ";", "5", ";", "3", "1">>),
      B(<<"3", "8", ";", "2", ";", "4", "1", ";", "4", "2", ";", "4", "3">>),
      B(<<"4", "8", ";", "2", ";", "1", ";", "2", ";", "3">>) }

\* whether every byte of s is at most 127
IsASCII(s) == \A k \in 1..Len(s) : s[k] <= 127

\* the tokens and token lists a caller of TokensPrintLength builds itself
MaxTokens == 2

SampleContents ==
    { B(<<"a">>), B(<<"a", "a", "a">>), B(<<"HI", "HI">>), B(<<"ESC", "[", "m">>) }

SampleTokens ==
    { Token(t, c, <<>>, <<>>) :
        t \in {String, EscapeCode, ComplexChar, ZeroWidth}, c \in SampleContents }

TokenLists == SeqsUpTo(SampleTokens, MaxTokens)

\* the bytes after the introducer in the argument of a scanner
MaxTail == 3

ScanAlphabet ==
    { Ord(c) : c \in {"ESC", "\\", "BEL", ";", "1", "3", " ", "m", "a"} }

PrevFGs == { <<>>, B(<<"3", "1">>), B(<<"3", "8", ";", "5", ";", "9">>) }
PrevBGs == { <<>>, B(<<"4", "2">>) }

\* ------------------------------------------------------------------------
\* PrintLength
\* ------------------------------------------------------------------------
\* PrintLength with a ZeroWidth token counted as one column
PrintLength_ZeroWidthOne(token) ==
    IF token.Type = String THEN Len(token.Content)
    ELSE IF token.Type = ComplexChar THEN 1
    ELSE IF token.Type = ZeroWidth THEN 1
    ELSE IF token.Type = EscapeCode THEN 0
    ELSE 0

\* token.PrintLength()
PrintLength(token) ==
    IF token.Type = String THEN Len(token.Content)
    ELSE IF token.Type = ComplexChar THEN 1
    ELSE IF token.Type = ZeroWidth THEN 0
    ELSE IF token.Type = EscapeCode THEN 0
    ELSE 0

\* the loop of TokensPrintLength from token k on, and the return after it
RECURSIVE printLengthLoop(_, _, _)
printLengthLoop(tokens, k, result) ==
    IF k > Len(tokens) THEN result
    ELSE printLengthLoop(tokens, k + 1, result + PrintLength(tokens[k]))

TokensPrintLength(tokens) == printLengthLoop(tokens, 1, 0)

\* ------------------------------------------------------------------------
\* State
\* ------------------------------------------------------------------------
VARIABLES
    input,      \* StringTokenizer.input, also the argument of Parse
    position,   \* StringTokenizer.position
    token,      \* StringTokenizer.token
    ret,        \* what the last call of Next returned: "none", "true", "false"
    emitted,    \* the tokens of the calls of Next that returned true, in order
    doneCalls,  \* the number of calls of Next that returned false
    got,        \* what the last call of Token() returned, once called
    parsed,     \* the result of Parse(input), once called
    panicked,   \* a slice expression panicked
    sgrParts,   \* the pieces the parameter text sgr is joined from
    sgr,        \* the argument sgr of a direct call of parseSGR
    prevFG,     \* its argument prevFG
    prevBG,     \* its argument prevBG
    resolved,   \* its result, once called
    tokenList,  \* the argument of a call of TokensPrintLength
    measured,   \* its result, once called
    scanStr,    \* the argument str of a direct call of a scanner,
                \* parseASCIIEscapeCode or parseASCIIOSC, with prevFG, prevBG
    scanned     \* its result, once called

vars == <<input, position, token, ret, emitted, doneCalls, got, parsed, panicked,
          sgrParts, sgr, prevFG, prevBG, resolved, tokenList, measured,
          scanStr, scanned>>

tokVars == <<input, position, token, ret, emitted, doneCalls, got>>
sgrVars == <<sgrParts, sgr, prevFG, prevBG, resolved>>
plVars  == <<tokenList, measured>>
scanVars == <<scanStr, scanned>>

NotGot == [called |-> FALSE, token |-> ZeroToken]
NotParsed == [called |-> FALSE, tokens |-> <<>>]
NotResolved == [called |-> FALSE, fg |-> <<>>, bg |-> <<>>]
NotMeasured == [called |-> FALSE, length |-> 0]
NotScanned == [called |-> FALSE, token |-> ZeroToken]

\* NewStringTokenizer(input), Parse not yet called
Init ==
    /\ input \in Inputs
    /\ position = 0
    /\ token = ZeroToken
    /\ ret = "none"
    /\ emitted = <<>>
    /\ doneCalls = 0
    /\ got = NotGot
    /\ parsed = NotParsed
    /\ panicked = FALSE
    /\ sgrParts = <<>>
    /\ sgr = <<>>
    /\ prevFG = <<>>
    /\ prevBG = <<>>
    /\ resolved = NotResolved
    /\ tokenList = <<>>
    /\ measured = NotMeasured
    /\ scanStr = <<>>
    /\ scanned = NotScanned

\* the tokenizer and its caller after a call of Next with outcome r
NextReturns(r) ==
    /\ panicked' = r.panic
    /\ position' = r.position
    /\ token' = r.token
    /\ ret' = IF r.panic THEN ret ELSE IF r.ret THEN "true" ELSE "false"
    /\ emitted' = IF r.ret THEN Append(emitted, r.token) ELSE emitted
    /\ doneCalls' = IF ~r.panic /\ ~r.ret THEN doneCalls + 1 ELSE doneCalls

\* a call of tokenizer.Next()
TokNext ==
    /\ ~panicked
    /\ doneCalls < MaxDoneCalls
    /\ NextReturns(NextLoop(input, position, position, token))
    /\ UNCHANGED <<input, got, parsed>>
    /\ UNCHANGED sgrVars
    /\ UNCHANGED plVars
    /\ UNCHANGED scanVars

\* a call of tokenizer.Token()
TokenCall ==
    /\ ~panicked
    /\ got' = [called |-> TRUE, token |-> token]
    /\ UNCHANGED <<input, position, token, ret, emitted, doneCalls, parsed, panicked>>
    /\ UNCHANGED sgrVars
    /\ UNCHANGED plVars
    /\ UNCHANGED scanVars

\* the caller after a call of Parse with outcome r
ParseReturns(r) ==
    /\ panicked' = r.panic
    /\ parsed' = IF r.panic THEN parsed
                 ELSE [called |-> TRUE, tokens |-> r.tokens]

\* a call of Parse(input)
ParseCall ==
    /\ ~panicked
    /\ ~parsed.called
    /\ ParseReturns(Parse(input))
    /\ UNCHANGED tokVars
    /\ UNCHANGED sgrVars
    /\ UNCHANGED plVars
    /\ UNCHANGED scanVars

Next == TokNext \/ TokenCall \/ ParseCall

Spec == Init /\ [][Next]_vars

\* a direct call of parseSGR(sgr, prevFG, prevBG)
InitSGR ==
    /\ sgrParts \in SeqsUpTo(SgrPieces, MaxSgrParts)
    /\ sgr = Join(sgrParts)
    /\ prevFG \in PrevFGs
    /\ prevBG \in PrevBGs
    /\ resolved = NotResolved
    /\ panicked = FALSE
    /\ input = <<>>
    /\ position = 0
    /\ token = ZeroToken
    /\ ret = "none"
    /\ emitted = <<>>
    /\ doneCalls = 0
    /\ got = NotGot
    /\ parsed = NotParsed
    /\ tokenList = <<>>
    /\ measured = NotMeasured
    /\ scanStr = <<>>
    /\ scanned = NotScanned

SGRReturns(r) ==
    /\ panicked' = r.panic
    /\ resolved' = IF r.panic THEN resolved
                   ELSE [called |-> TRUE, fg |-> r.fg, bg |-> r.bg]

SGRCall ==
    /\ ~panicked
    /\ ~resolved.called
    /\ SGRReturns(parseSGR(sgr, prevFG, prevBG))
    /\ UNCHANGED <<sgrParts, sgr, prevFG, prevBG, parsed>>
    /\ UNCHANGED tokVars
    /\ UNCHANGED plVars
    /\ UNCHANGED scanVars

NextSGR == SGRCall

SpecSGR == InitSGR /\ [][NextSGR]_vars

\* a call of TokensPrintLength(tokenList), on the tokens of Parse(input) or,
\* with no input, on a token list built by the caller
InitPL ==
    /\ input \in { s \in Inputs : IsASCII(s) /\ ~Parse(s).panic }
    /\ tokenList \in (IF input = <<>> THEN TokenLists ELSE { Parse(input).tokens })
    /\ measured = NotMeasured
    /\ scanStr = <<>>
    /\ scanned = NotScanned
    /\ panicked = FALSE
    /\ position = 0
    /\ token = ZeroToken
    /\ ret = "none"
    /\ emitted = <<>>
    /\ doneCalls = 0
    /\ got = NotGot
    /\ parsed = NotParsed
    /\ sgrParts = <<>>
    /\ sgr = <<>>
    /\ prevFG = <<>>
    /\ prevBG = <<>>
    /\ resolved = NotResolved

PrintLengthCall ==
    /\ ~measured.called
    /\ measured' = [called |-> TRUE, length |-> TokensPrintLength(tokenList)]
    /\ UNCHANGED <<tokenList, parsed, panicked>>
    /\ UNCHANGED tokVars
    /\ UNCHANGED sgrVars
    /\ UNCHANGED scanVars

NextPL == PrintLengthCall

SpecPL == InitPL /\ [][NextPL]_vars

\* a direct call of a scanner on a string that starts with its introducer, as
\* Next and parseASCII call it on input[position:]
InitScan ==
    /\ scanStr \in { intro \o tail :
                        intro \in { B(<<"ESC", "[">>), B(<<"ESC", "]">>) },
                        tail \in SeqsUpTo(ScanAlphabet, MaxTail) }
    /\ prevFG \in PrevFGs
    /\ prevBG \in PrevBGs
    /\ scanned = NotScanned
    /\ panicked = FALSE
    /\ input = <<>>
    /\ position = 0
    /\ token = ZeroToken
    /\ ret = "none"
    /\ emitted = <<>>
    /\ doneCalls = 0
    /\ got = NotGot
    /\ parsed = NotParsed
    /\ sgrParts = <<>>
    /\ sgr = <<>>
    /\ resolved = NotResolved
    /\ tokenList = <<>>
    /\ measured = NotMeasured

ScanReturns(r) ==
    /\ panicked' = r.panic
    /\ scanned' = IF r.panic THEN scanned ELSE [called |-> TRUE, token |-> r.token]

\* a call of parseASCIIEscapeCode(scanStr, prevFG, prevBG)
CSICall ==
    /\ ~panicked
    /\ ~scanned.called
    /\ IsCSIAt(scanStr, 0)
    /\ ScanReturns(parseASCIIEscapeCode(scanStr, prevFG, prevBG))
    /\ UNCHANGED <<scanStr, sgrParts, sgr, prevFG, prevBG, resolved, parsed>>
    /\ UNCHANGED tokVars
    /\ UNCHANGED plVars

\* a call of parseASCIIOSC(scanStr, prevFG, prevBG)
OSCCall ==
    /\ ~panicked
    /\ ~scanned.called
    /\ IsOSCAt(scanStr, 0)
    /\ ScanReturns(parseASCIIOSC(scanStr, prevFG, prevBG))
    /\ UNCHANGED <<scanStr, sgrParts, sgr, prevFG, prevBG, resolved, parsed>>
    /\ UNCHANGED tokVars
    /\ UNCHANGED plVars

NextScan == CSICall \/ OSCCall

SpecScan == InitScan /\ [][NextScan]_vars

\* ------------------------------------------------------------------------
\* Properties
\* ------------------------------------------------------------------------
\* the Content fields of a token sequence, concatenated in order
Contents(toks) == Concat([i \in 1..Len(toks) |-> toks[i].Content])

TypesOf(toks) == { toks[i].Type : i \in 1..Len(toks) }

\* C1: when Parse returns, the Content of its tokens, concatenated in order,
\* is the input.
C1_ParseReconstructs ==
    parsed.called => Contents(parsed.tokens) = input

C1_Witness ==
    /\ parsed.called
    /\ Len(parsed.tokens) >= 3
    /\ {EscapeCode, ZeroWidth, ComplexChar} \subseteq TypesOf(parsed.tokens)

\* C2: at every point of a tokenization the tokens returned so far,
\* concatenated in order, are input[0:position]; when Next has returned
\* false they are the whole input.
C2_TokensContiguous ==
    /\ position <= Len(input)
    /\ Contents(emitted) = Slice(input, 0, position)
    /\ (ret = "false" => Contents(emitted) = input)

C2_Witness ==
    /\ ret = "false"
    /\ Len(emitted) >= 3
    /\ {String, EscapeCode} \subseteq TypesOf(emitted)

\* C3: a call of Next that returns a token leaves position strictly greater
\* than before, and at most len(input) calls return a token.
C3_Progress ==
    /\ [](Len(emitted) <= Len(input))
    /\ [][Len(emitted') = Len(emitted) + 1 => position' > position]_vars

C3_Witness ==
    /\ ret = "true"
    /\ Len(emitted) >= 2
    /\ position < Len(input)
    /\ emitted[Len(emitted)].Type = EscapeCode

\* C4: once Next has returned false, every later call of Next returns false.
C4_DoneAbsorbing == [][ret = "false" => ret' = "false"]_vars

C4_Witness ==
    /\ doneCalls >= 2
    /\ ret = "false"
    /\ Len(emitted) >= 2

\* whether content is a CSI sequence with final byte 'm'
IsSGRContent(content) ==
    /\ Len(content) >= 3
    /\ At(content, 0) = Ord("ESC")
    /\ At(content, 1) = Ord("[")
    /\ At(content, Len(content) - 1) = Ord("m")

\* the colours before token i of toks
ColoursBefore(toks, i) ==
    IF i = 1 THEN [fg |-> <<>>, bg |-> <<>>]
    ELSE [fg |-> toks[i - 1].FG, bg |-> toks[i - 1].BG]

\* the colours after a token, given the colours before it: the SGR resolver
\* applied to the parameter text of an SGR escape code, unchanged otherwise
Colours(r) == [fg |-> r.fg, bg |-> r.bg]

ColoursAfter(tok, before) ==
    IF tok.Type = EscapeCode /\ IsSGRContent(tok.Content)
    THEN Colours(parseSGR(Slice(tok.Content, 2, Len(tok.Content) - 1), before.fg, before.bg))
    ELSE before

ColoursPropagate(toks) ==
    \A i \in 1..Len(toks) :
        [fg |-> toks[i].FG, bg |-> toks[i].BG] = ColoursAfter(toks[i], ColoursBefore(toks, i))

\* C5: in the tokens of Parse and in the tokens of repeated Next, the colours
\* of each token are those obtained from ("", "") by applying the SGR resolver
\* to the SGR escape codes up to and including it, in order.
C5_ColourPropagation ==
    /\ ColoursPropagate(emitted)
    /\ (parsed.called => ColoursPropagate(parsed.tokens))

\* an SGR token that sets a colour is directly followed by a token that is not
\* an SGR escape code, at some index of toks
ColouredThenPlain(toks) ==
    \E i \in 1..(Len(toks) - 1) :
        /\ IsSGRContent(toks[i].Content)
        /\ toks[i].FG # <<>>
        /\ ~IsSGRContent(toks[i + 1].Content)

C5_Witness ==
    /\ parsed.called
    /\ ColouredThenPlain(parsed.tokens)
    /\ ret = "false"
    /\ ColouredThenPlain(emitted)

\* C6: resolving the parameter text "" or "0" from any prior colours yields
\* ("", "").
C6_ResetYieldsEmpty ==
    (resolved.called /\ sgr \in {<<>>, B(<<"0">>)})
        => (resolved.fg = <<>> /\ resolved.bg = <<>>)

\* C7: no slice expression lies outside its string: Parse and Next complete
\* normally on every input.
C7_NeverPanics == ~panicked

\* the extended colour groups among the pieces of a parameter text
FGGroups ==
    { B(<<"3", "8", ";", "5", ";", "9">>),
      B(<<"3", "8", ";", "2", ";", "4", "1", ";", "4", "2", ";", "4", "3">>) }

BGGroups ==
    { B(<<"4", "8", ";", "5", ";", "3", "1">>),
      B(<<"4", "8", ";", "2", ";", "1", ";", "2", ";", "3">>) }

\* the pieces that, read as a command, set or clear the foreground / background
TouchesFG(part) ==
    part \in FGGroups \cup { B(<<"1">>), B(<<"3", "1">>), B(<<"3", "9">>), B(<<"9", "3">>) }

TouchesBG(part) ==
    part \in BGGroups \cup { B(<<"1">>), B(<<"4", "2">>), B(<<"4", "9">>), B(<<"1", "0", "4">>) }

\* no piece is a 38 or 48 without its operands, so that every piece is read
\* as a command of its own and every extended colour group is complete
GroupsComplete(parts) ==
    \A i \in 1..Len(parts) : parts[i] \notin { B(<<"3", "8">>), B(<<"4", "8">>) }

LastFG(parts, k) == \A j \in (k + 1)..Len(parts) : ~TouchesFG(parts[j])
LastBG(parts, k) == \A j \in (k + 1)..Len(parts) : ~TouchesBG(parts[j])

\* C8: the colour tag of a complete extended colour group is the text of the
\* group in the parameter text, byte for byte, for the foreground (38) and the
\* background (48), also when one command holds both.
C8_ExtendedColourVerbatim ==
    (resolved.called /\ GroupsComplete(sgrParts)) =>
        \A k \in 1..Len(sgrParts) :
            /\ (sgrParts[k] \in FGGroups /\ LastFG(sgrParts, k)) => resolved.fg = sgrParts[k]
            /\ (sgrParts[k] \in BGGroups /\ LastBG(sgrParts, k)) => resolved.bg = sgrParts[k]

C8_Witness ==
    /\ resolved.called
    /\ Len(sgrParts) = 2
    /\ sgrParts[1] \in FGGroups
    /\ sgrParts[2] \in BGGroups
    /\ resolved.fg = sgrParts[1]
    /\ resolved.bg = sgrParts[2]

Colour(tok) == [fg |-> tok.FG, bg |-> tok.BG]

IsPlainEscape(tok) == tok.Type = EscapeCode /\ ~IsSGRContent(tok.Content)

EscapesKeepColours(toks) ==
    \A i \in 1..Len(toks) :
        IsPlainEscape(toks[i]) =>
            /\ Colour(toks[i]) = ColoursBefore(toks, i)
            /\ (i < Len(toks) /\ ~IsSGRContent(toks[i + 1].Content))
                   => Colour(toks[i + 1]) = ColoursBefore(toks, i)

\* C9: an escape code token that is not an SGR code (a CSI sequence with
\* another final byte, or an OSC sequence) carries the colours of the token
\* before it, and so does the token after it unless that is an SGR code.
C9_EscapesKeepColours ==
    /\ EscapesKeepColours(emitted)
    /\ (parsed.called => EscapesKeepColours(parsed.tokens))

\* toks holds, after a token with a foreground, an OSC token and a CSI token
\* that is not an SGR code
HasColouredEscapes(toks) ==
    /\ \E i \in 2..Len(toks) :
          /\ IsPlainEscape(toks[i]) /\ At(toks[i].Content, 1) = Ord("]")
          /\ toks[i - 1].FG # <<>>
    /\ \E i \in 2..Len(toks) :
          /\ IsPlainEscape(toks[i]) /\ At(toks[i].Content, 1) = Ord("[")
          /\ toks[i - 1].FG # <<>>

C9_Witness ==
    /\ parsed.called
    /\ HasColouredEscapes(parsed.tokens)
    /\ HasColouredEscapes(emitted)

\* C10: the command "1" resets the foreground and the background to "",
\* whatever the colours before it.
C10_OneResets ==
    (resolved.called /\ GroupsComplete(sgrParts)) =>
        \A k \in 1..Len(sgrParts) :
            sgrParts[k] = B(<<"1">>) =>
                /\ LastFG(sgrParts, k) => resolved.fg = <<>>
                /\ LastBG(sgrParts, k) => resolved.bg = <<>>

C10_Witness ==
    /\ resolved.called
    /\ prevFG # <<>>
    /\ prevBG # <<>>
    /\ Len(sgrParts) >= 2
    /\ sgrParts[Len(sgrParts)] = B(<<"1">>)
    /\ resolved.fg = <<>>
    /\ resolved.bg = <<>>

\* whether byte b occurs in s
Has(s, b) == \E k \in 1..Len(s) : s[k] = b

\* every ZeroWidth token of toks is one BEL byte with the colours before it,
\* and no String token of toks contains a BEL
BelsStandAlone(toks) ==
    \A i \in 1..Len(toks) :
        /\ toks[i].Type = ZeroWidth =>
               /\ toks[i].Content = <<bel>>
               /\ Colour(toks[i]) = ColoursBefore(toks, i)
        /\ toks[i].Type = String => ~Has(toks[i].Content, bel)

\* C11: in the tokens of Parse on 7-bit input, every BEL byte outside the
\* escape code tokens is a ZeroWidth token of its own, one byte long, with the
\* colours in force before it, and no String token contains a BEL.
C11_BelIsZeroWidth ==
    (parsed.called /\ IsASCII(input)) =>
        /\ BelsStandAlone(parsed.tokens)
        /\ Contents(parsed.tokens) = input

C11_Witness ==
    /\ parsed.called
    /\ IsASCII(input)
    /\ \E i \in 2..(Len(parsed.tokens) - 1) :
          /\ parsed.tokens[i].Type = ZeroWidth
          /\ parsed.tokens[i - 1].Type = String
          /\ parsed.tokens[i + 1].Type = String

\* C12: a token returned by Next that starts at a BEL byte is a ZeroWidth
\* token of that one byte, and a String token returned by Next stops before
\* a BEL byte, so that it contains none.
C12_NextBelIsZeroWidth ==
    \A i \in 1..Len(emitted) :
        /\ At(emitted[i].Content, 0) = bel =>
               (emitted[i].Type = ZeroWidth /\ emitted[i].Content = <<bel>>)
        /\ emitted[i].Type = String => ~Has(emitted[i].Content, bel)

\* C13: on an input of bytes up to 127, the tokens returned by Next until it
\* returns false are the tokens returned by Parse, field by field.
C13_NextEqualsParse ==
    (ret = "false" /\ parsed.called /\ IsASCII(input)) => emitted = parsed.tokens

\* C14: the resolver's foreground is "39" after a command whose last
\* foreground command is the clearing command 39, and its background is "49"
\* after one whose last background command is the clearing command 49.
C14_ClearIsCloseTag ==
    (resolved.called /\ GroupsComplete(sgrParts)) =>
        \A k \in 1..Len(sgrParts) :
            /\ (sgrParts[k] = B(<<"3", "9">>) /\ LastFG(sgrParts, k))
                   => resolved.fg = B(<<"3", "9">>)
            /\ (sgrParts[k] = B(<<"4", "9">>) /\ LastBG(sgrParts, k))
                   => resolved.bg = B(<<"4", "9">>)

\* the tokens of toks whose Type is in types
OfTypes(toks, types) == SelectSeq(toks, LAMBDA t : t.Type \in types)

\* C15: TokensPrintLength of a token list is the bytes of its String tokens
\* plus one for each ComplexChar token, ZeroWidth and EscapeCode tokens
\* counting nothing; on the tokens of Parse(s), s of bytes up to 127, it is
\* len(s) less the bytes of the EscapeCode and ZeroWidth tokens.
C15_PrintLength ==
    measured.called =>
        /\ measured.length = Len(Contents(OfTypes(tokenList, {String})))
                               + Len(OfTypes(tokenList, {ComplexChar}))
        /\ input # <<>> =>
               measured.length = Len(input)
                   - Len(Contents(OfTypes(tokenList, {EscapeCode, ZeroWidth})))

C15_Witness ==
    /\ measured.called
    /\ input # <<>>
    /\ {String, EscapeCode, ZeroWidth} \subseteq TypesOf(tokenList)
    /\ measured.length >= 1
    /\ measured.length < Len(input)

\* C16: the token of the CSI scanner is the introducer, the run of parameter
\* bytes 0x30-0x3F, the run of intermediate bytes 0x20-0x2F, and then one
\* final byte if and only if the next byte is in 0x40-0x7E; a next byte
\* outside that range is left for the next token.
C16_CSIGrammar ==
    (scanned.called /\ IsCSIAt(scanStr, 0)) =>
        LET iParam == SkipBytes(scanStr, 2, 48, 63)
            iInter == SkipBytes(scanStr, iParam, 32, 47)
            final  == iInter < Len(scanStr) /\ At(scanStr, iInter) \in 64..126
        IN  scanned.token.Content =
                Slice(scanStr, 0, IF final THEN iInter + 1 ELSE iInter)

\* C17: for a CSI sequence with final byte 'm' the colours of the token are
\* the resolver applied to the run of parameter bytes alone, the intermediate
\* bytes before the 'm' left out.
C17_ParamsOnlyResolved ==
    (/\ scanned.called
     /\ IsCSIAt(scanStr, 0)
     /\ At(scanned.token.Content, Len(scanned.token.Content) - 1) = Ord("m"))
        => Colour(scanned.token) =
               Colours(parseSGR(Slice(scanStr, 2, SkipBytes(scanStr, 2, 48, 63)),
                                prevFG, prevBG))

\* whether the first n bytes of the OSC sequence s end with a terminator, a
\* BEL or ESC \ after the introducer, or are all of s
OSCEndsAt(s, n) ==
    \/ n = Len(s)
    \/ n >= 3 /\ At(s, n - 1) = bel
    \/ n >= 4 /\ Slice(s, n - 2, n) = st

\* C20: the token of the OSC scanner is the shortest prefix of its argument,
\* from the introducer on, that ends with a BEL or with ESC \ after the
\* introducer, or the whole argument if there is none; it carries the inbound
\* colours.
C20_OSCExtent ==
    (scanned.called /\ IsOSCAt(scanStr, 0)) =>
        /\ Len(scanned.token.Content) \in 2..Len(scanStr)
        /\ scanned.token.Content = Slice(scanStr, 0, Len(scanned.token.Content))
        /\ OSCEndsAt(scanStr, Len(scanned.token.Content))
        /\ \A n \in 2..(Len(scanned.token.Content) - 1) : ~OSCEndsAt(scanStr, n)
        /\ scanned.token.Type = EscapeCode
        /\ Colour(scanned.token) = [fg |-> prevFG, bg |-> prevBG]

C20_Witness ==
    /\ scanned.called
    /\ IsOSCAt(scanStr, 0)
    /\ Len(scanStr) = 5
    /\ Slice(scanStr, 2, 4) = st
    /\ At(scanStr, 4) = bel
    /\ scanned.token.Content = Slice(scanStr, 0, 4)
    /\ scanned.token.FG # <<>>

\* the fields that are no command and neither "5" nor "2"
PlainFields == { <<>>, B(<<"0">>), B(<<"7">>) }

\* C18: a field 38 or 48 that is the last field, or is followed by a field
\* that is neither "5" nor "2", changes no colour: the colours after the
\* command are the colours before it.
C18_UnknownModeKeepsColours ==
    (/\ resolved.called
     /\ Len(sgrParts) \in 1..2
     /\ sgrParts[1] \in { B(<<"3", "8">>), B(<<"4", "8">>) }
     /\ Len(sgrParts) = 2 => sgrParts[2] \in PlainFields)
        => (resolved.fg = prevFG /\ resolved.bg = prevBG)

SimpleFG == { B(<<"3", "1">>), B(<<"9", "3">>) }
SimpleBG == { B(<<"4", "2">>), B(<<"1", "0", "4">>) }

\* C19: the operands of an extended colour group are not read as commands
\* of their own: a command with no background command leaves the background
\* as it was, whatever the operands of its foreground groups, and likewise
\* for the foreground; the field after a group is read as a command.
C19_OperandsConsumed ==
    (resolved.called /\ GroupsComplete(sgrParts) /\ Len(sgr) > 0) =>
        /\ (\A k \in 1..Len(sgrParts) : ~TouchesBG(sgrParts[k])) => resolved.bg = prevBG
        /\ (\A k \in 1..Len(sgrParts) : ~TouchesFG(sgrParts[k])) => resolved.fg = prevFG
        /\ \A k \in 1..(Len(sgrParts) - 1) :
               sgrParts[k] \in FGGroups \cup BGGroups =>
                   /\ (sgrParts[k + 1] \in SimpleFG /\ LastFG(sgrParts, k + 1))
                          => resolved.fg = sgrParts[k + 1]
                   /\ (sgrParts[k + 1] \in SimpleBG /\ LastBG(sgrParts, k + 1))
                          => resolved.bg = sgrParts[k + 1]

C19_Witness ==
    /\ resolved.called
    /\ Len(sgrParts) = 2
    /\ sgrParts[1] = B(<<"3", "8", ";", "2", ";", "4", "1", ";", "4", "2", ";", "4", "3">>)
    /\ sgrParts[2] = B(<<"9", "3">>)
    /\ prevBG = B(<<"4", "2">>)
    /\ resolved.bg = prevBG
    /\ resolved.fg = sgrParts[2]

\* the colours after one piece of a parameter text, read as a command on the
\* colours c
PartEffect(part, c) ==
    [fg |-> IF part \in FGGroups \cup SimpleFG THEN part
            ELSE IF part \in { B(<<"1">>), B(<<"3", "9">>) } THEN <<>>
            ELSE c.fg,
     bg |-> IF part \in BGGroups \cup SimpleBG THEN part
            ELSE IF part \in { B(<<"1">>), B(<<"4", "9">>) } THEN <<>>
            ELSE c.bg]

\* the pieces parts[k..] applied in order, each on the colours left by the
\* pieces before it
RECURSIVE PartsEffect(_, _, _)
PartsEffect(parts, k, c) ==
    IF k > Len(parts) THEN c
    ELSE PartsEffect(parts, k + 1, PartEffect(parts[k], c))

\* C21: the fields of an SGR command are applied from left to right, each on
\* the colours left by the fields before it, so that a later field overrides
\* an earlier one on the same side.
C21_LeftToRight ==
    (resolved.called /\ GroupsComplete(sgrParts) /\ Len(sgr) > 0) =>
        [fg |-> resolved.fg, bg |-> resolved.bg]
            = PartsEffect(sgrParts, 1, [fg |-> prevFG, bg |-> prevBG])

C21_Witness ==
    /\ resolved.called
    /\ sgrParts = << B(<<"3", "1">>), B(<<"1">>), B(<<"9", "3">>) >>
    /\ prevBG # <<>>
    /\ resolved.fg = B(<<"9", "3">>)
    /\ resolved.bg = <<>>

\* C22: a command of one simple foreground field sets FG to the text of the
\* field, and 39 sets FG to "", the background staying as it was; a command
\* of one simple background field sets BG to the text of the field, and 49
\* sets BG to "", the foreground staying as it was.
C22_SimpleFields ==
    (resolved.called /\ Len(sgrParts) = 1) =>
        /\ sgrParts[1] \in SimpleFG => (resolved.fg = sgrParts[1] /\ resolved.bg = prevBG)
        /\ sgrParts[1] = B(<<"3", "9">>) => (resolved.fg = <<>> /\ resolved.bg = prevBG)
        /\ sgrParts[1] \in SimpleBG => (resolved.bg = sgrParts[1] /\ resolved.fg = prevFG)
        /\ sgrParts[1] = B(<<"4", "9">>) => (resolved.bg = <<>> /\ resolved.fg = prevFG)

C22_Witness ==
    /\ resolved.called
    /\ sgrParts = << B(<<"4", "9">>) >>
    /\ prevFG # <<>>
    /\ prevBG # <<>>
    /\ resolved.fg = prevFG
    /\ resolved.bg = <<>>

\* whether s has an introducer, ESC [ or ESC ], at index i
IntroducerAt(s, i) ==
    /\ i + 1 < Len(s)
    /\ At(s, i) = Ord("ESC")
    /\ At(s, i + 1) \in { Ord("["), Ord("]") }

\* every EscapeCode token of toks starts with an introducer, and a String
\* token that starts with ESC does not follow a String token
LoneEscIsText(toks) ==
    \A i \in 1..Len(toks) :
        /\ toks[i].Type = EscapeCode => IntroducerAt(toks[i].Content, 0)
        /\ (i > 1 /\ toks[i].Type = String /\ At(toks[i].Content, 0) = Ord("ESC"))
               => toks[i - 1].Type # String

\* C23: an ESC byte that ends the input or is followed by a byte other than
\* '[' and ']' starts no escape code token and is part of the String run
\* around it, in the tokens of Next and in the tokens of Parse.
C23_LoneEscIsText ==
    /\ LoneEscIsText(emitted)
    /\ (parsed.called => LoneEscIsText(parsed.tokens))

\* toks is one String token of three bytes with an ESC in the middle
EscInsideText(toks) ==
    /\ Len(toks) = 1
    /\ toks[1].Type = String
    /\ Len(toks[1].Content) = 3
    /\ At(toks[1].Content, 1) = Ord("ESC")

C23_Witness ==
    /\ ret = "false"
    /\ EscInsideText(emitted)
    /\ parsed.called
    /\ EscInsideText(parsed.tokens)

\* no two consecutive tokens of toks are String tokens, and no String token
\* holds an introducer
StringsMaximal(toks) ==
    \A i \in 1..Len(toks) :
        toks[i].Type = String =>
            /\ (i > 1 => toks[i - 1].Type # String)
            /\ \A k \in 0..(Len(toks[i].Content) - 1) : ~IntroducerAt(toks[i].Content, k)

\* C24: String tokens are maximal runs: in the tokens of Next, and in the
\* tokens of Parse on an input of bytes up to 127, no two consecutive tokens
\* are String tokens and no String token holds ESC [ or ESC ].
C24_StringsMaximal ==
    /\ StringsMaximal(emitted)
    /\ (parsed.called /\ IsASCII(input)) => StringsMaximal(parsed.tokens)

\* toks holds a String token of two bytes or more, ended by an escape code
\* token
RunBeforeEscape(toks) ==
    \E i \in 1..(Len(toks) - 1) :
        /\ toks[i].Type = String
        /\ Len(toks[i].Content) >= 2
        /\ toks[i + 1].Type = EscapeCode

C24_Witness ==
    /\ ret = "false"
    /\ RunBeforeEscape(emitted)
    /\ parsed.called
    /\ RunBeforeEscape(parsed.tokens)

\* the Content of every token of toks is as long as its type requires
ContentsNonEmpty(toks) ==
    \A i \in 1..Len(toks) :
        /\ Len(toks[i].Content) >= 1
        /\ toks[i].Type = EscapeCode => Len(toks[i].Content) >= 2
        /\ toks[i].Type = ZeroWidth => Len(toks[i].Content) = 1

\* C25: every token of Parse and of Next has a Content of one byte or more
\* (two or more for an escape code, one for a ZeroWidth token), and the
\* tokenizer's position stays within 0..len(input) and never decreases.
C25_NonEmptyAndBounded ==
    /\ [](/\ ContentsNonEmpty(emitted)
          /\ ContentsNonEmpty(parsed.tokens)
          /\ position \in 0..Len(input))
    /\ [][position' >= position]_vars

C25_Witness ==
    /\ ret = "true"
    /\ position = Len(input)
    /\ Len(emitted) >= 2
    /\ parsed.called
    /\ {EscapeCode, ZeroWidth} \subseteq TypesOf(parsed.tokens)
    /\ \E i \in 1..Len(parsed.tokens) :
          parsed.tokens[i].Type = EscapeCode /\ Len(parsed.tokens[i].Content) = 2

\* C26: a call of Next that returns false leaves position, which is
\* len(input), and the token as they were; the token is the last one
\* returned, or the zero token when none was; a call of Token() returns the
\* token and changes nothing of the tokenizer.
C26_DoneChangesNothing ==
    /\ [](token = IF emitted = <<>> THEN ZeroToken ELSE emitted[Len(emitted)])
    /\ [][doneCalls' = doneCalls + 1 =>
              (/\ position' = position
               /\ position = Len(input)
               /\ token' = token
               /\ emitted' = emitted)]_vars
    /\ [][got' # got =>
              (/\ got' = [called |-> TRUE, token |-> token]
               /\ UNCHANGED <<input, position, token, ret, emitted, doneCalls>>)]_vars

C26_Witness ==
    /\ ret = "false"
    /\ doneCalls >= 1
    /\ Len(emitted) >= 2
    /\ position = Len(input)
    /\ token = emitted[Len(emitted)]
    /\ got = [called |-> TRUE, token |-> token]

====
